---- MODULE Spec2Model ----
(***************************************************************************)
(* Cybercab Fleet Commander (src/app.py): the unit-economics engine of the *)
(* dashboard script and its sensitivity heatmap.                           *)
(*                                                                         *)
(* The script computes with Python numbers: the integer widgets return     *)
(* Python ints (exact), everything that touches a float literal, a float   *)
(* widget or a true division is an IEEE-754 binary64 value rounded to      *)
(* nearest, ties to even.  The model keeps both: ints are TLA+ integers,   *)
(* floats are records [sgn, man, exp] standing for                         *)
(*       (-1)^sgn * man * 2^exp                                            *)
(* with man a natural number of exactly Prec bits (or zero), kept as a     *)
(* little-endian sequence of limbs because a significand does not fit a    *)
(* TLC integer.  Every float operation computes the exact result and       *)
(* rounds it once, as the hardware does.  Exponent overflow and subnormal  *)
(* numbers are outside every value the widgets of the model can produce.   *)
(***************************************************************************)
EXTENDS Integers, Sequences, FiniteSets, TLC

---------------------------------------------------------------------------
(* Natural numbers of any size: little-endian limb sequences, no high zero *)
(* limb; <<>> is 0.                                                        *)

\* bits of the significand of a Python float (binary64)
Prec == 53
\* a product of two limbs plus a carry stays below 2^31
LimbBits == 15
Base == 2^LimbBits

Pow2[n \in 0..LimbBits] == 2^n

RECURSIVE Trim(_)
Trim(x) ==
  IF x = <<>> THEN x
  ELSE IF x[Len(x)] # 0 THEN x
  ELSE Trim(SubSeq(x, 1, Len(x) - 1))

Limb(x, i) == IF i >= 1 /\ i <= Len(x) THEN x[i] ELSE 0

BigOfInt(n) ==
  IF n = 0 THEN <<>>
  ELSE IF n < Base THEN <<n>>
  ELSE IF n < Base * Base THEN <<n % Base, n \div Base>>
  ELSE <<n % Base, (n \div Base) % Base, n \div (Base * Base)>>

\* the limbs of the number whose columns are c[lo..hi] (any integers),
\* carry cin coming in: <<limbs, carry out>>.  Halving keeps the depth of
\* the evaluation logarithmic in the length.
RECURSIVE CarryRange(_, _, _, _)
CarryRange(c, lo, hi, cin) ==
  IF lo = hi
  THEN LET t == c[lo] + cin IN <<(<<t % Base>>), t \div Base>>
  ELSE LET mid == (lo + hi) \div 2
           L == CarryRange(c, lo, mid, cin)
           U == CarryRange(c, mid + 1, hi, L[2])
       IN  <<L[1] \o U[1], U[2]>>

Carry(c) ==
  IF c = <<>> THEN <<>>
  ELSE LET r == CarryRange(c, 1, Len(c), 0)
       IN  Trim(IF r[2] = 0 THEN r[1] ELSE r[1] \o <<r[2]>>)

BAdd(x, y) ==
  Carry([i \in 1..(IF Len(x) > Len(y) THEN Len(x) ELSE Len(y)) |->
           Limb(x, i) + Limb(y, i)])

\* x - y for x >= y
BSub(x, y) == Carry([i \in 1..Len(x) |-> x[i] - Limb(y, i)])

\* -1, 0, 1 as x < y, x = y, x > y
RECURSIVE BCmpAt(_, _, _)
BCmpAt(x, y, i) ==
  IF i = 0 THEN 0
  ELSE IF x[i] < y[i] THEN -1
  ELSE IF x[i] > y[i] THEN 1
  ELSE BCmpAt(x, y, i - 1)

BCmp(x, y) ==
  IF Len(x) < Len(y) THEN -1
  ELSE IF Len(x) > Len(y) THEN 1
  ELSE BCmpAt(x, y, Len(x))

\* x * d for one limb d
BMulLimb(x, d) ==
  IF d = 0 THEN <<>> ELSE Carry([i \in 1..Len(x) |-> x[i] * d])

Zeros(n) == [i \in 1..n |-> 0]

RECURSIVE BMulFrom(_, _, _)
BMulFrom(x, y, j) ==
  IF j > Len(y) THEN <<>>
  ELSE LET p == BMulLimb(x, y[j])
           rest == BMulFrom(x, y, j + 1)
       IN  BAdd(p, IF rest = <<>> THEN <<>> ELSE <<0>> \o rest)

BMul(x, y) == IF x = <<>> \/ y = <<>> THEN <<>> ELSE BMulFrom(x, y, 1)

\* x * 2^n
BShl(x, n) ==
  IF x = <<>> THEN <<>>
  ELSE Zeros(n \div LimbBits) \o BMulLimb(x, Pow2[n % LimbBits])

\* floor(x / 2^n)
BShr(x, n) ==
  LET q == n \div LimbBits
      r == n % LimbBits
      m == Len(x) - q
  IN  IF m <= 0 THEN <<>>
      ELSE Trim([i \in 1..m |->
                   (x[q + i] \div Pow2[r])
                   + (Limb(x, q + i + 1) % Pow2[r]) * Pow2[LimbBits - r]])

\* x mod 2^n # 0
AnyLimb(x, k) == \E i \in 1..k : x[i] # 0

LowBits(x, n) ==
  LET q == n \div LimbBits
      r == n % LimbBits
  IN  IF q >= Len(x) THEN x # <<>>
      ELSE AnyLimb(x, q) \/ (x[q + 1] % Pow2[r] # 0)

\* bit n (from 0) of x
BitAt(x, n) == (Limb(x, n \div LimbBits + 1) \div Pow2[n % LimbBits]) % 2

RECURSIVE IntBits(_)
IntBits(n) == IF n = 0 THEN 0 ELSE 1 + IntBits(n \div 2)

BitLen(x) ==
  IF x = <<>> THEN 0 ELSE (Len(x) - 1) * LimbBits + IntBits(x[Len(x)])

One == <<1>>

---------------------------------------------------------------------------
(* binary64 values *)

FZero(s) == [sgn |-> s, man |-> <<>>, exp |-> 0]

\* q * 2^e with q of Prec or Prec + 1 bits (the carry of a rounding up)
Renorm(s, q, e) ==
  IF BitLen(q) > Prec THEN [sgn |-> s, man |-> BShr(q, 1), exp |-> e + 1]
  ELSE [sgn |-> s, man |-> q, exp |-> e]

RoundUp(s, q, e, up) == IF up THEN Renorm(s, BAdd(q, One), e) ELSE Renorm(s, q, e)

\* m of n > Prec bits: keep the top Prec, round on the bits dropped
RoundCut(s, m, e, sticky, d, q) ==
  RoundUp(s, q, e + d,
          BitAt(m, d - 1) = 1
          /\ (sticky \/ LowBits(m, d - 1) \/ BitAt(q, 0) = 1))

RoundBits(s, m, e, sticky, n) ==
  IF n = 0 THEN FZero(s)
  ELSE IF n <= Prec
  THEN [sgn |-> s, man |-> BShl(m, Prec - n), exp |-> e - (Prec - n)]
  ELSE RoundCut(s, m, e, sticky, n - Prec, BShr(m, n - Prec))

\* round (-1)^s * (m + t) * 2^e to nearest, ties to even; t is a
\* fraction in (0,1) when sticky and 0 otherwise.  With sticky, m has
\* more than Prec + 1 bits.
Round(s, m, e, sticky) == RoundBits(s, m, e, sticky, BitLen(m))

FIsZero(a) == a.man = <<>>

\* int -> float
FromInt(n) ==
  Round(IF n < 0 THEN 1 ELSE 0, BigOfInt(IF n < 0 THEN -n ELSE n), 0, FALSE)

FNeg(a) == [a EXCEPT !.sgn = 1 - a.sgn]

FMul(a, b) ==
  LET s == (a.sgn + b.sgn) % 2
  IN  IF FIsZero(a) \/ FIsZero(b) THEN FZero(s)
      ELSE Round(s, BMul(a.man, b.man), a.exp + b.exp, FALSE)

\* |a| compared with |b|
MagCmp(a, b) ==
  IF FIsZero(a) THEN (IF FIsZero(b) THEN 0 ELSE -1)
  ELSE IF FIsZero(b) THEN 1
  ELSE IF a.exp < b.exp THEN -1
  ELSE IF a.exp > b.exp THEN 1
  ELSE BCmp(a.man, b.man)

\* x * 2^e with sign sa plus y * 2^e with sign sb, c = BCmp(x, y)
AddAligned(sa, x, sb, y, e, c) ==
  Round(IF sa = sb \/ c > 0 THEN sa ELSE IF c < 0 THEN sb ELSE 0,
        IF sa = sb THEN BAdd(x, y)
        ELSE IF c > 0 THEN BSub(x, y)
        ELSE IF c < 0 THEN BSub(y, x)
        ELSE <<>>,
        e, FALSE)

AddShifted(sa, x, sb, y, e) == AddAligned(sa, x, sb, y, e, BCmp(x, y))

MinExp(a, b) == IF a.exp < b.exp THEN a.exp ELSE b.exp

FAdd(a, b) ==
  IF FIsZero(a)
  THEN (IF FIsZero(b) THEN FZero(IF a.sgn = 1 /\ b.sgn = 1 THEN 1 ELSE 0)
        ELSE b)
  ELSE IF FIsZero(b) THEN a
  ELSE AddShifted(a.sgn, BShl(a.man, a.exp - MinExp(a, b)),
                  b.sgn, BShl(b.man, b.exp - MinExp(a, b)), MinExp(a, b))

FSub(a, b) == FAdd(a, FNeg(b))

\* limbs of a significand, and the shift that fills its top limb
ManLimbs == (Prec + LimbBits - 1) \div LimbBits
NormShift == ManLimbs * LimbBits - Prec

\* the next quotient limb of r * Base / y for r < y, y of n limbs with a
\* full top limb: the estimate from the top limbs is at most 2 too large
RECURSIVE FixDigit(_, _, _)
FixDigit(q, y, r1) ==
  IF BCmp(BMulLimb(y, q), r1) > 0 THEN FixDigit(q - 1, y, r1) ELSE q

\* k more limbs of the quotient, most significant first, then the remainder
RECURSIVE DivLimbs(_, _, _)
DivLimbs(r, y, k) ==
  IF k = 0 THEN <<r>>
  ELSE LET n == Len(y)
           r1 == IF r = <<>> THEN <<>> ELSE <<0>> \o r
           est == (Limb(r1, n + 1) * Base + Limb(r1, n)) \div y[n]
           q == FixDigit(IF est > Base - 1 THEN Base - 1 ELSE est, y, r1)
       IN  <<q>> \o DivLimbs(BSub(r1, BMulLimb(y, q)), y, k - 1)

\* the quotient limbs d (most significant first, the remainder last) after
\* the leading limb q0, rounded
DivRound(s, e, q0, d) ==
  Round(s,
        Trim([i \in 1..(ManLimbs + 1) |->
                IF i = ManLimbs + 1 THEN q0 ELSE d[ManLimbs + 1 - i]]),
        e, d[ManLimbs + 1] # <<>>)

DivFrom(s, e, x, y, q0) ==
  DivRound(s, e, q0, DivLimbs(IF q0 = 1 THEN BSub(x, y) ELSE x, y, ManLimbs))

DivNorm(s, e, x, y) == DivFrom(s, e, x, y, IF BCmp(x, y) >= 0 THEN 1 ELSE 0)

\* a / b for b # 0: the quotient of the significands to ManLimbs limbs
\* beyond the point, the remainder as the sticky bit
FDiv(a, b) ==
  IF FIsZero(a) THEN FZero((a.sgn + b.sgn) % 2)
  ELSE DivNorm((a.sgn + b.sgn) % 2, a.exp - b.exp - ManLimbs * LimbBits,
               BShl(a.man, NormShift), BShl(b.man, NormShift))

FEq(a, b) == (FIsZero(a) /\ FIsZero(b)) \/ a = b

FLt(a, b) ==
  IF FIsZero(a) /\ FIsZero(b) THEN FALSE
  ELSE IF a.sgn # b.sgn THEN a.sgn = 1
  ELSE IF a.sgn = 0 THEN MagCmp(a, b) < 0
  ELSE MagCmp(a, b) > 0

FLe(a, b) == FLt(a, b) \/ FEq(a, b)


\* a > 0 to the power n >= 1.  Python's float ** int is the C library's
\* pow, which delivers the correctly rounded power for the operands here.
\* The power of the significand is enclosed between two numbers kept to
\* PowLimbs limbs; when both round to the same float that is the result,
\* otherwise the power is computed in full.
PowLimbs == 2 * ManLimbs

\* x * Base^k cut to PowLimbs limbs: the part kept (one more when up), and
\* the limbs dropped
Cut(x, k, up) ==
  LET d == Len(x) - PowLimbs
  IN  IF d <= 0 THEN [m |-> x, k |-> k]
      ELSE [m |-> IF up THEN BAdd(SubSeq(x, d + 1, Len(x)), One)
                        ELSE SubSeq(x, d + 1, Len(x)),
            k |-> k + d]

\* a bound of m^n as p.m * Base^(p.k): from below, or from above when up
RECURSIVE PowBound(_, _, _)
PowBound(m, n, up) ==
  IF n = 1 THEN [m |-> m, k |-> 0]
  ELSE IF n % 2 = 0
  THEN LET h == PowBound(m, n \div 2, up) IN Cut(BMul(h.m, h.m), 2 * h.k, up)
  ELSE LET h == PowBound(m, n - 1, up) IN Cut(BMul(h.m, m), h.k, up)

RECURSIVE PowExact(_, _)
PowExact(m, n) == IF n = 1 THEN m ELSE BMul(PowExact(m, n - 1), m)

PowRound(a, n, lo, hi) ==
  IF lo = hi THEN lo ELSE Round(0, PowExact(a.man, n), a.exp * n, FALSE)

PowEnclosed(a, n, p) ==
  Round(0, p.m, a.exp * n + p.k * LimbBits, FALSE)

FPow(a, n) ==
  PowRound(a, n, PowEnclosed(a, n, PowBound(a.man, n, FALSE)),
           PowEnclosed(a, n, PowBound(a.man, n, TRUE)))

\* a decimal literal with digits n and denominator d: the nearest float
Dec(n, d) == FDiv(FromInt(n), FromInt(d))

\* 2^n
TwoTo(n) == [sgn |-> 0, man |-> BShl(One, Prec - 1), exp |-> n - (Prec - 1)]

FAbs(a) == [a EXCEPT !.sgn = 0]

---------------------------------------------------------------------------
(* The sidebar (lines 56-97).  A widget returns the type of its value      *)
(* argument: an int for num_cars, the integer sliders, the three monthly   *)
(* costs, car_price, down_payment and loan_months; a float for             *)
(* price_per_mile, tire_cost, energy_cost and the interest rate.  A float  *)
(* widget is taken to deliver the float nearest the decimal it shows.      *)
(* interest_rate is what the "Interest Rate (%)" widget returns, before    *)
(* line 96 divides it by 100.                                              *)

Default ==
  [num_cars |-> 1,
   price_per_mile |-> Dec(160, 100),
   paid_utilization |-> 55,
   hours_active |-> 16,
   platform_fee |-> 30,
   cleaning_budget |-> 400,
   insurance_cost |-> 250,
   remote_intervention |-> 50,
   tire_cost |-> Dec(6, 100),
   energy_cost |-> Dec(8, 100),
   car_price |-> 29000,
   down_payment |-> 5000,
   interest_rate |-> Dec(75, 10),
   loan_months |-> 60]

Fields == DOMAIN Default

\* a name the run has not bound yet
None == [none |-> TRUE]

\* the names the script binds after the sidebar
Names ==
  {"loan_rate", "hours_mo", "paid_hours_mo", "paid_miles_mo_per_car",
   "total_miles_mo_per_car", "deadhead_miles_mo_per_car", "gross_rev_car",
   "platform_cut_car", "net_rev_car", "var_opex_car", "fixed_opex_car",
   "loan_principal", "monthly_rate", "monthly_debt_car", "total_costs_car",
   "cash_flow_car", "fleet_net_revenue", "fleet_total_costs",
   "fleet_cash_flow", "fleet_total_miles", "kpi3", "kpi4", "status",
   "fig_waterfall", "z_data", "row", "p", "u", "pm", "tm", "gr", "nr", "vc",
   "tc"}

\* the script's namespace when a run starts with the widgets at v; i and j
\* are the positions of the two for loops in y_price and x_util
Namespace(v) ==
  [n \in Fields \cup Names \cup {"i", "j"} |->
     IF n \in Fields THEN v[n] ELSE IF n \in {"i", "j"} THEN 0 ELSE None]

\* the widgets' values in namespace ns
Widgets(ns) == [f \in Fields |-> ns[f]]

---------------------------------------------------------------------------
(* LOGIC ENGINE (lines 99-131).  Each statement is an operator from the   *)
(* namespace before it to the namespace after it, named after the name it *)
(* binds.                                                                 *)

Bind(ns, n, x) == [ns EXCEPT ![n] = x]

\* a month of 30 days
days_mo_30 == Dec(300, 10)

\* line 101
days_mo == Dec(305, 10)
\* line 104
avg_speed == 18

ZeroDivisionError == "ZeroDivisionError"

\* x / 100 for an int x
Percent(x) == FDiv(FromInt(x), FromInt(100))

\* line 96
loan_rate(ns) == Bind(ns, "loan_rate", FDiv(ns.interest_rate, FromInt(100)))

\* line 102
hours_mo(ns) == Bind(ns, "hours_mo", FMul(FromInt(ns.hours_active), days_mo))

\* line 103
paid_hours_mo(ns) ==
  Bind(ns, "paid_hours_mo", FMul(ns.hours_mo, Percent(ns.paid_utilization)))

\* line 105
paid_miles_mo_per_car(ns) ==
  Bind(ns, "paid_miles_mo_per_car",
       FMul(ns.paid_hours_mo, FromInt(avg_speed)))

\* the division turned into a multiplication
total_miles_times(ns) ==
  Bind(ns, "total_miles_mo_per_car",
       FMul(ns.paid_miles_mo_per_car, Percent(ns.paid_utilization)))

\* line 106, for a divisor that is not 0.0
total_miles_mo_per_car(ns) ==
  Bind(ns, "total_miles_mo_per_car",
       FDiv(ns.paid_miles_mo_per_car, Percent(ns.paid_utilization)))

\* line 107
deadhead_miles_mo_per_car(ns) ==
  Bind(ns, "deadhead_miles_mo_per_car",
       FSub(ns.total_miles_mo_per_car, ns.paid_miles_mo_per_car))

\* a zero divisor answered with 0.0 miles instead of the exception
PhysicsTotalDefault(ns) ==
  IF FIsZero(Percent(ns.paid_utilization))
  THEN deadhead_miles_mo_per_car(
         Bind(ns, "total_miles_mo_per_car", FZero(0)))
  ELSE deadhead_miles_mo_per_car(total_miles_mo_per_car(ns))

\* lines 106-107: the division raises when its divisor is 0.0, and
\* total_miles_mo_per_car stays unbound
PhysicsTotal(ns) ==
  IF FIsZero(Percent(ns.paid_utilization)) THEN ns
  ELSE deadhead_miles_mo_per_car(total_miles_mo_per_car(ns))

\* lines 101-107
PhysicsOf(ns) ==
  PhysicsTotal(paid_miles_mo_per_car(paid_hours_mo(hours_mo(ns))))

\* line 110
gross_rev_car(ns) ==
  Bind(ns, "gross_rev_car", FMul(ns.paid_miles_mo_per_car, ns.price_per_mile))

\* line 111
platform_cut_car(ns) ==
  Bind(ns, "platform_cut_car",
       FMul(ns.gross_rev_car, Percent(ns.platform_fee)))

\* the platform's cut added instead of taken off
net_rev_car_plus(ns) ==
  Bind(ns, "net_rev_car", FAdd(ns.gross_rev_car, ns.platform_cut_car))

\* line 112
net_rev_car(ns) ==
  Bind(ns, "net_rev_car", FSub(ns.gross_rev_car, ns.platform_cut_car))

\* line 114
var_opex_car(ns) ==
  Bind(ns, "var_opex_car",
       FMul(ns.total_miles_mo_per_car, FAdd(ns.tire_cost, ns.energy_cost)))

\* line 115: three ints
fixed_opex_car(ns) ==
  Bind(ns, "fixed_opex_car",
       ns.cleaning_budget + ns.insurance_cost + ns.remote_intervention)

\* lines 110-115
PerCarOf(ns) ==
  fixed_opex_car(var_opex_car(net_rev_car(platform_cut_car(
    gross_rev_car(ns)))))

\* line 117: two ints
loan_principal(ns) ==
  Bind(ns, "loan_principal", ns.car_price - ns.down_payment)

\* line 118
monthly_rate(ns) ==
  Bind(ns, "monthly_rate", FDiv(ns.loan_rate, FromInt(12)))

\* line 120: (1 + monthly_rate) ** loan_months
Growth(ns) == FPow(FAdd(FromInt(1), ns.monthly_rate), ns.loan_months)

\* line 120 with g the value of the power; the division raises when its
\* divisor is 0.0, and monthly_debt_car stays unbound
Annuity(ns, g) ==
  IF FIsZero(FSub(g, FromInt(1))) THEN ns
  ELSE Bind(ns, "monthly_debt_car",
            FDiv(FMul(FromInt(ns.loan_principal), FMul(ns.monthly_rate, g)),
                 FSub(g, FromInt(1))))

\* floor division (//) instead of true division
StraightLineFloor(ns) ==
  Bind(ns, "monthly_debt_car", FromInt(ns.loan_principal \div ns.loan_months))

\* line 122: an int divided by an int
StraightLine(ns) ==
  Bind(ns, "monthly_debt_car",
       FDiv(FromInt(ns.loan_principal), FromInt(ns.loan_months)))

\* line 119
AnnuityBranch(ns) == FLt(FZero(0), ns.loan_rate)

\* lines 119-122
monthly_debt_car(ns) ==
  IF AnnuityBranch(ns) THEN Annuity(ns, Growth(ns)) ELSE StraightLine(ns)

\* lines 117-122
LoanOf(ns) == monthly_debt_car(monthly_rate(loan_principal(ns)))

\* line 124
total_costs_car(ns) ==
  Bind(ns, "total_costs_car",
       FAdd(FAdd(ns.var_opex_car, FromInt(ns.fixed_opex_car)),
            ns.monthly_debt_car))

\* line 125
cash_flow_car(ns) ==
  Bind(ns, "cash_flow_car", FSub(ns.net_rev_car, ns.total_costs_car))

\* lines 124-125
TotalsOf(ns) == cash_flow_car(total_costs_car(ns))

\* line 128
fleet_net_revenue(ns) ==
  Bind(ns, "fleet_net_revenue", FMul(ns.net_rev_car, FromInt(ns.num_cars)))

\* line 129
fleet_total_costs(ns) ==
  Bind(ns, "fleet_total_costs",
       FMul(ns.total_costs_car, FromInt(ns.num_cars)))

\* the fleet's cash flow taken from the net revenue
fleet_cash_flow_net(ns) ==
  Bind(ns, "fleet_cash_flow", FMul(ns.net_rev_car, FromInt(ns.num_cars)))

\* line 130
fleet_cash_flow(ns) ==
  Bind(ns, "fleet_cash_flow", FMul(ns.cash_flow_car, FromInt(ns.num_cars)))

\* line 131
fleet_total_miles(ns) ==
  Bind(ns, "fleet_total_miles",
       FMul(ns.total_miles_mo_per_car, FromInt(ns.num_cars)))

\* lines 128-131
FleetOf(ns) ==
  fleet_total_miles(fleet_cash_flow(fleet_total_costs(fleet_net_revenue(ns))))

---------------------------------------------------------------------------
(* DASHBOARD (lines 133-199).  A figure is recorded by the numbers handed *)
(* to it, before they are formatted.                                      *)

\* line 138: the value and the delta of "Total Miles Driven"
kpi3(ns) ==
  Bind(ns, "kpi3",
       [value |-> ns.fleet_total_miles,
        delta |-> FMul(ns.deadhead_miles_mo_per_car, FromInt(ns.num_cars))])

\* line 139: the value and the colour of "Net Fleet Cash Flow"
kpi4(ns) ==
  Bind(ns, "kpi4",
       [value |-> ns.fleet_cash_flow,
        delta_color |-> IF FLt(FZero(0), ns.fleet_cash_flow) THEN "normal"
                        ELSE "inverse"])

\* lines 141-144: st.success with the annual profit, or st.error with the
\* monthly loss
status(ns) ==
  Bind(ns, "status",
       IF FLt(FZero(0), ns.fleet_cash_flow)
       THEN [box |-> "success",
             amount |-> FMul(ns.fleet_cash_flow, FromInt(12))]
       ELSE [box |-> "error", amount |-> FAbs(ns.fleet_cash_flow)])

\* lines 136-144
KpisOf(ns) == status(kpi4(kpi3(ns)))

\* the loan bar drawn upwards
fig_waterfall_debt_up(ns) ==
  Bind(ns, "fig_waterfall",
       [measure |-> <<"relative", "relative", "relative", "relative",
                      "relative", "total">>,
        y |-> <<ns.gross_rev_car, FNeg(ns.platform_cut_car),
                FNeg(ns.var_opex_car), FromInt(-ns.fixed_opex_car),
                ns.monthly_debt_car, ns.cash_flow_car>>])

\* lines 152-165: y of the waterfall; fixed_opex_car is an int
fig_waterfall(ns) ==
  Bind(ns, "fig_waterfall",
       [measure |-> <<"relative", "relative", "relative", "relative",
                      "relative", "total">>,
        y |-> <<ns.gross_rev_car, FNeg(ns.platform_cut_car),
                FNeg(ns.var_opex_car), FromInt(-ns.fixed_opex_car),
                FNeg(ns.monthly_debt_car), ns.cash_flow_car>>])

\* line 174: list(range(30, 85, 5))
x_util == [k \in 1..11 |-> 30 + 5 * (k - 1)]
\* line 175
y_price ==
  <<Dec(100, 100), Dec(125, 100), Dec(150, 100), Dec(175, 100),
    Dec(200, 100), Dec(250, 100), Dec(300, 100)>>

\* line 181
pm(ns) ==
  Bind(ns, "pm",
       FMul(FMul(ns.hours_mo, Percent(ns.u)), FromInt(avg_speed)))

\* the paid miles taken for the total miles
tm_paid(ns) == Bind(ns, "tm", ns.pm)

\* line 182
tm(ns) == Bind(ns, "tm", FDiv(ns.pm, Percent(ns.u)))

\* line 183
gr(ns) == Bind(ns, "gr", FMul(ns.pm, ns.p))

\* line 184
nr(ns) ==
  Bind(ns, "nr",
       FMul(ns.gr, FSub(FromInt(1), Percent(ns.platform_fee))))

\* line 185
vc(ns) == Bind(ns, "vc", FMul(ns.tm, FAdd(ns.tire_cost, ns.energy_cost)))

\* line 186
tc(ns) ==
  Bind(ns, "tc",
       FAdd(FAdd(ns.vc, FromInt(ns.fixed_opex_car)), ns.monthly_debt_car))

\* line 187
row_append(ns) == Bind(ns, "row", Append(ns.row, FSub(ns.nr, ns.tc)))

\* line 179: u is bound to the next element of x_util
NextU(ns) == [ns EXCEPT !.u = x_util[ns.j + 1], !.j = ns.j + 1]

\* lines 179-187: one pass of the inner loop
HeatCellOf(ns) == row_append(tc(vc(nr(gr(tm(pm(NextU(ns))))))))

\* lines 177-178: p is bound to the next element of y_price, row is emptied
NextP(ns) ==
  [ns EXCEPT !.p = y_price[ns.i + 1], !.i = ns.i + 1, !.row = <<>>, !.j = 0]

\* line 188
z_data_append(ns) == Bind(ns, "z_data", Append(ns.z_data, ns.row))

---------------------------------------------------------------------------
(* The values a widget can be set to, within its range and on its step:   *)
(* the model's sample of them.                                            *)

MaxCars == 3
MaxEdits == 1

WidgetValues ==
  [num_cars |-> 1..MaxCars,
   price_per_mile |-> {Dec(5, 10), Dec(16, 10), Dec(17, 10), Dec(35, 10)},
   paid_utilization |-> {20, 50, 55, 60, 80},
   hours_active |-> {8, 16, 24},
   platform_fee |-> {15, 30, 35, 50},
   cleaning_budget |-> {350, 400, 450},
   insurance_cost |-> {250, 300},
   remote_intervention |-> {50, 60},
   tire_cost |-> {Dec(5, 100), Dec(6, 100), Dec(7, 100)},
   energy_cost |-> {Dec(8, 100), Dec(9, 100)},
   car_price |-> {29000, 30000},
   down_payment |-> {5000, 5500, 21000, 30000},
   interest_rate |-> {Dec(0, 10), Dec(75, 10), Dec(80, 10)},
   loan_months |-> {36, 48, 60, 72}]

\* the AssumptionSets the engine is evaluated on by itself: the sidebar's
\* defaults crossed with a sample of seven inputs; utilization 0 and 100
\* are the ends of the engine's range, which the slider (20..80) does not
\* deliver
AssumptionSets ==
  [num_cars : 1..MaxCars,
   price_per_mile : {Dec(5, 10), Dec(16, 10)},
   paid_utilization : {0, 5, 20, 35, 55, 60, 80, 95, 100},
   hours_active : {8, 16, 24},
   platform_fee : {30},
   cleaning_budget : {400},
   insurance_cost : {250},
   remote_intervention : {50},
   tire_cost : {Dec(6, 100)},
   energy_cost : {Dec(8, 100)},
   car_price : {29000},
   down_payment : {5000, 21000, 30000},
   interest_rate : {Dec(0, 10), Dec(75, 10)},
   loan_months : {36, 60}]

Edits(v) == Cardinality({f \in Fields : v[f] # Default[f]})

---------------------------------------------------------------------------
(* One run of the script.  Streamlit runs it from the top with the        *)
(* widgets' values, and again whenever a widget changes.                  *)

VARIABLES
  ns,           \* the script's namespace: name -> value
  pc,           \* the block of the script that runs next
  exception     \* the exception that ended the run, or None

vars == <<ns, pc, exception>>

Start(v) ==
  /\ ns = Namespace(v)
  /\ pc = "sidebar"
  /\ exception = None

Init == Start(Default)

\* lines 56-97
Sidebar ==
  /\ pc = "sidebar"
  /\ ns' = loan_rate(ns)
  /\ pc' = "physics"
  /\ UNCHANGED exception

\* lines 101-107
Physics ==
  /\ pc = "physics"
  /\ ns' = PhysicsOf(ns)
  /\ IF ns'.total_miles_mo_per_car = None
     THEN exception' = ZeroDivisionError /\ pc' = "raised"
     ELSE pc' = "percar" /\ UNCHANGED exception

\* lines 110-115
PerCar ==
  /\ pc = "percar"
  /\ ns' = PerCarOf(ns)
  /\ pc' = "loan"
  /\ UNCHANGED exception

\* lines 117-122
Loan ==
  /\ pc = "loan"
  /\ ns' = LoanOf(ns)
  /\ IF ns'.monthly_debt_car = None
     THEN exception' = ZeroDivisionError /\ pc' = "raised"
     ELSE pc' = "totals" /\ UNCHANGED exception

\* lines 124-125
Totals ==
  /\ pc = "totals"
  /\ ns' = TotalsOf(ns)
  /\ pc' = "fleet"
  /\ UNCHANGED exception

\* lines 128-131
Fleet ==
  /\ pc = "fleet"
  /\ ns' = FleetOf(ns)
  /\ pc' = "kpis"
  /\ UNCHANGED exception

\* lines 136-144
Kpis ==
  /\ pc = "kpis"
  /\ ns' = KpisOf(ns)
  /\ pc' = "waterfall"
  /\ UNCHANGED exception

\* lines 149-167
Waterfall ==
  /\ pc = "waterfall"
  /\ ns' = fig_waterfall(ns)
  /\ pc' = "heatmap"
  /\ UNCHANGED exception

\* lines 169-176
Heatmap ==
  /\ pc = "heatmap"
  /\ ns' = [ns EXCEPT !.z_data = <<>>, !.i = 0]
  /\ pc' = "for p"
  /\ UNCHANGED exception

\* lines 177-178: the next p, or lines 190-199 after the last
ForP ==
  /\ pc = "for p"
  /\ IF ns.i < Len(y_price)
     THEN ns' = NextP(ns) /\ pc' = "for u"
     ELSE pc' = "done" /\ UNCHANGED ns
  /\ UNCHANGED exception

\* lines 179-187: the next u
ForU ==
  /\ pc = "for u"
  /\ ns.j < Len(x_util)
  /\ ns' = HeatCellOf(ns)
  /\ UNCHANGED <<pc, exception>>

\* line 188, after the last u
RowDone ==
  /\ pc = "for u"
  /\ ns.j = Len(x_util)
  /\ ns' = z_data_append(ns)
  /\ pc' = "for p"
  /\ UNCHANGED exception

\* the user sets one widget to another value once the page has been
\* drawn, or the traceback shown: Streamlit runs the script again from
\* the top
Rerun ==
  /\ pc \in {"done", "raised"}
  /\ \E f \in Fields : \E x \in WidgetValues[f] :
       /\ x # ns[f]
       /\ Edits([Widgets(ns) EXCEPT ![f] = x]) <= MaxEdits
       /\ ns' = Namespace([Widgets(ns) EXCEPT ![f] = x])
  /\ pc' = "sidebar"
  /\ exception' = None

Engine == Sidebar \/ Physics \/ PerCar \/ Loan \/ Totals \/ Fleet

Next ==
  \/ Engine
  \/ Kpis
  \/ Waterfall
  \/ Heatmap
  \/ ForP
  \/ ForU
  \/ RowDone
  \/ Rerun

Spec == Init /\ [][Next]_vars

\* the engine and the two figures that show its results, on an
\* AssumptionSet
InitCalc == \E v \in AssumptionSets : Start(v)

NextCalc == Engine \/ Kpis \/ Waterfall

SpecCalc == InitCalc /\ [][NextCalc]_vars

---------------------------------------------------------------------------
(* Properties *)

\* the run has bound every name of S (names of floats and figures)
Bound(S) == \A n \in S : ns[n] # None

\* |a - b| <= 2^k * ref
Near(a, b, k, ref) == FLe(FAbs(FSub(a, b)), FMul(TwoTo(k), ref))

\* the per-car cash flow lines 101-115 and 124-125 give when field f of
\* namespace base is x and the loan payment is the one base has
CashFlowAt(base, f, x) ==
  TotalsOf(PerCarOf(PhysicsOf([base EXCEPT ![f] = x]))).cash_flow_car

\* what a run that stops at line 106 never binds
Results ==
  {"total_miles_mo_per_car", "deadhead_miles_mo_per_car", "gross_rev_car",
   "net_rev_car", "var_opex_car", "monthly_debt_car", "total_costs_car",
   "cash_flow_car", "fleet_net_revenue", "fleet_total_costs",
   "fleet_cash_flow", "fleet_total_miles", "kpi4", "status",
   "fig_waterfall"}

\* C1: with paid_utilization = 0 the run ends at the division of line 106
\* with a ZeroDivisionError: it never gets past the physics block, and no
\* total miles, cash flow, fleet figure or waterfall is bound, to a number
\* or to anything else.
C1_ZeroUtilizationRaises ==
  ns.paid_utilization = 0 =>
    /\ pc \in {"sidebar", "physics", "raised"}
    /\ pc = "raised" => exception = ZeroDivisionError
    /\ \A n \in Results : ns[n] = None

C1_Witness ==
  /\ ns.paid_utilization = 0
  /\ pc = "raised"
  /\ exception = ZeroDivisionError
  /\ ns.paid_miles_mo_per_car # None

\* the hard invariants of an AssumptionSet fail for the widgets' values
InvalidAssumption ==
  \/ ns.down_payment > ns.car_price
  \/ ns.down_payment < 0
  \/ ns.loan_months <= 0
  \/ ns.paid_utilization <= 0
  \/ ns.paid_utilization > 100
  \/ \E f \in {"price_per_mile", "tire_cost", "energy_cost"} :
       FLt(ns[f], FZero(0))
  \/ \E f \in {"cleaning_budget", "insurance_cost", "remote_intervention",
               "car_price"} : ns[f] < 0

\* C2: when the inputs break a hard invariant (such as down_payment >
\* car_price) the run signals InvalidAssumption and binds no loan payment
\* and no cash flow.
C2_InvariantsEnforced ==
  InvalidAssumption =>
    /\ ns.monthly_debt_car = None
    /\ ns.cash_flow_car = None
    /\ pc = "raised" => exception = "InvalidAssumption"

\* C3: for a utilization in (0,100], total miles >= paid miles >= 0 and
\* deadhead = total - paid >= 0; total = paid (deadhead 0) only at
\* utilization 100 or with no paid miles.
C3_MilesOrdered ==
  (ns.paid_utilization \in 1..100 /\ Bound({"deadhead_miles_mo_per_car"})) =>
    /\ FLe(FZero(0), ns.paid_miles_mo_per_car)
    /\ FLe(ns.paid_miles_mo_per_car, ns.total_miles_mo_per_car)
    /\ FLe(FZero(0), ns.deadhead_miles_mo_per_car)
    /\ FEq(ns.deadhead_miles_mo_per_car,
           FSub(ns.total_miles_mo_per_car, ns.paid_miles_mo_per_car))
    /\ (\/ FEq(ns.total_miles_mo_per_car, ns.paid_miles_mo_per_car)
        \/ FIsZero(ns.deadhead_miles_mo_per_car))
         => (ns.paid_utilization = 100 \/ FIsZero(ns.paid_miles_mo_per_car))

C3_Witness ==
  /\ ns.paid_utilization = 100
  /\ Bound({"deadhead_miles_mo_per_car"})
  /\ FIsZero(ns.deadhead_miles_mo_per_car)
  /\ ~FIsZero(ns.paid_miles_mo_per_car)

FloatFields == {"price_per_mile", "tire_cost", "energy_cost", "interest_rate"}

\* value x of field f is above value y
Above(f, x, y) == IF f \in FloatFields THEN FLt(y, x) ELSE x > y

Raising == {"price_per_mile", "paid_utilization"}
Lowering ==
  {"platform_fee", "tire_cost", "energy_cost", "cleaning_budget",
   "insurance_cost", "remote_intervention"}

Repaid == FMul(ns.monthly_debt_car, FromInt(ns.loan_months))

\* the loan payment of a run whose rate is above 0 exceeds
\* loan_principal / loan_months when the principal is positive
AnnuityAbove ==
  (AnnuityBranch(ns) /\ ns.loan_principal > 0) =>
    FLt(FDiv(FromInt(ns.loan_principal), FromInt(ns.loan_months)),
        ns.monthly_debt_car)

C6_CellsAreEngineCashFlow ==
  pc = "done" =>
    /\ Len(ns.z_data) = Len(y_price)
    /\ \A i \in 1..Len(y_price) :
         /\ Len(ns.z_data[i]) = Len(x_util)
         /\ \A j \in 1..Len(x_util) :
              FEq(ns.z_data[i][j],
                  CashFlowAt([ns EXCEPT !.price_per_mile = y_price[i]],
                             "paid_utilization", x_util[j]))

FleetNames ==
  {"fleet_net_revenue", "fleet_total_costs", "fleet_cash_flow",
   "fleet_total_miles"}

\* each fleet figure is the per-car figure times num_cars, and the fleet's
\* cash flow has the sign of the per-car cash flow
FleetScaled ==
  /\ FEq(ns.fleet_net_revenue, FMul(ns.net_rev_car, FromInt(ns.num_cars)))
  /\ FEq(ns.fleet_total_costs,
         FMul(ns.total_costs_car, FromInt(ns.num_cars)))
  /\ FEq(ns.fleet_cash_flow, FMul(ns.cash_flow_car, FromInt(ns.num_cars)))
  /\ FEq(ns.fleet_total_miles,
         FMul(ns.total_miles_mo_per_car, FromInt(ns.num_cars)))
  /\ FLt(FZero(0), ns.fleet_cash_flow) <=> FLt(FZero(0), ns.cash_flow_car)
  /\ FLt(ns.fleet_cash_flow, FZero(0)) <=> FLt(ns.cash_flow_car, FZero(0))
  /\ Bound({"status"}) =>
       (ns.status.box = "success" <=> FLt(FZero(0), ns.cash_flow_car))

\* C7 as claimed: the fleet figures are the per-car figures times num_cars,
\* fleet_cash_flow = fleet_net_revenue - fleet_total_costs, and
\* fleet_cash_flow has the sign of cash_flow_car.
C7_FleetExact ==
  Bound(FleetNames) =>
    /\ FleetScaled
    /\ FEq(ns.fleet_cash_flow,
           FSub(ns.fleet_net_revenue, ns.fleet_total_costs))

\* C7 amended: the fleet figures are the per-car figures times num_cars,
\* each rounded to a double; fleet_cash_flow is within
\* 2^-50 * (|fleet_net_revenue| + |fleet_total_costs|) of
\* fleet_net_revenue - fleet_total_costs, and has the sign of
\* cash_flow_car.
C7_FleetRounded ==
  Bound(FleetNames) =>
    /\ FleetScaled
    /\ Near(ns.fleet_cash_flow,
            FSub(ns.fleet_net_revenue, ns.fleet_total_costs), -50,
            FAdd(FAbs(ns.fleet_net_revenue), FAbs(ns.fleet_total_costs)))

C7_Witness ==
  /\ Bound(FleetNames \cup {"status"})
  /\ ns.num_cars > 1
  /\ ~FEq(ns.fleet_cash_flow,
          FSub(ns.fleet_net_revenue, ns.fleet_total_costs))

\* the physics block has run on the default hours and utilization
DefaultMiles ==
  /\ ns.hours_active = 16
  /\ ns.paid_utilization = 55
  /\ Bound({"deadhead_miles_mo_per_car"})

\* C8 as claimed: with hours_active = 16 and paid_utilization = 55 the
\* chain gives hours_mo = 488, paid_hours_mo = 268.4, paid miles = 4831.2,
\* total miles = 8784.0 and deadhead miles = 3952.8.
C8_DefaultChainExact ==
  DefaultMiles =>
    /\ FEq(ns.hours_mo, FromInt(488))
    /\ FEq(ns.paid_hours_mo, Dec(2684, 10))
    /\ FEq(ns.paid_miles_mo_per_car, Dec(48312, 10))
    /\ FEq(ns.total_miles_mo_per_car, Dec(87840, 10))
    /\ FEq(ns.deadhead_miles_mo_per_car, Dec(39528, 10))

\* C8 amended: with hours_active = 16 and paid_utilization = 55 the chain
\* gives hours_mo = 488 and total miles = 8784.0 exactly, and
\* paid_hours_mo, paid miles and deadhead miles within a relative 2^-51 of
\* 268.4, 4831.2 and 3952.8.
C8_DefaultChainRounded ==
  DefaultMiles =>
    /\ FEq(ns.hours_mo, FromInt(488))
    /\ Near(ns.paid_hours_mo, Dec(2684, 10), -51, Dec(2684, 10))
    /\ Near(ns.paid_miles_mo_per_car, Dec(48312, 10), -51, Dec(48312, 10))
    /\ FEq(ns.total_miles_mo_per_car, Dec(87840, 10))
    /\ Near(ns.deadhead_miles_mo_per_car, Dec(39528, 10), -51,
            Dec(39528, 10))

C8_Witness ==
  /\ DefaultMiles
  /\ ~FEq(ns.paid_hours_mo, Dec(2684, 10))
  /\ ~FEq(ns.paid_miles_mo_per_car, Dec(48312, 10))
  /\ ~FEq(ns.deadhead_miles_mo_per_car, Dec(39528, 10))

\* the five relative bars of y added from the left, as the waterfall
\* stacks them
BarSum(y) == FAdd(FAdd(FAdd(FAdd(y[1], y[2]), y[3]), y[4]), y[5])

\* the sum of the sizes of the five relative bars
BarSize(y) ==
  FAdd(FAdd(FAdd(FAdd(FAbs(y[1]), FAbs(y[2])), FAbs(y[3])), FAbs(y[4])),
       FAbs(y[5]))

\* C9 as claimed: the total bar of the waterfall is cash_flow_car and the
\* five relative bars sum exactly to it.
C9_BarsSumExact ==
  Bound({"fig_waterfall"}) =>
    /\ FEq(ns.fig_waterfall.y[6], ns.cash_flow_car)
    /\ FEq(BarSum(ns.fig_waterfall.y), ns.fig_waterfall.y[6])

\* C9 amended: the total bar of the waterfall is cash_flow_car and the sum
\* of the five relative bars is within 2^-49 times the sum of their sizes
\* of it.
C9_BarsSumRounded ==
  Bound({"fig_waterfall"}) =>
    /\ FEq(ns.fig_waterfall.y[6], ns.cash_flow_car)
    /\ Near(BarSum(ns.fig_waterfall.y), ns.fig_waterfall.y[6], -49,
            BarSize(ns.fig_waterfall.y))

C9_Witness ==
  /\ Bound({"fig_waterfall"})
  /\ ~FEq(BarSum(ns.fig_waterfall.y), ns.fig_waterfall.y[6])

\* hours_mo * avg_speed
HoursTimesSpeed == FMul(ns.hours_mo, FromInt(avg_speed))

\* tc as the first cell of a row computes it
FirstTc == tc(vc(tm(pm([ns EXCEPT !.u = x_util[1]])))).tc

\* total_costs_car when only paid_utilization is changed to x
CostsAt(x) ==
  TotalsOf(PerCarOf(PhysicsOf([ns EXCEPT !.paid_utilization = x])))
    .total_costs_car

\* the sizes of the three terms of tc
TcSize ==
  FAdd(FAdd(FAbs(ns.vc), FAbs(FromInt(ns.fixed_opex_car))),
       FAbs(ns.monthly_debt_car))

\* C10 as claimed: total miles = hours_mo * avg_speed at every
\* utilization, so total_costs_car is the same at every other utilization,
\* and tc is the same in every cell of the matrix.
C10_CostsFixedExact ==
  /\ Bound({"total_miles_mo_per_car"}) =>
       FEq(ns.total_miles_mo_per_car, HoursTimesSpeed)
  /\ pc = "kpis" =>
       \A x \in WidgetValues.paid_utilization :
         FEq(CostsAt(x), ns.total_costs_car)
  /\ Bound({"tc"}) => FEq(ns.tc, FirstTc)

\* C10 amended: total miles is within a relative 2^-50 of
\* hours_mo * avg_speed at every utilization, total_costs_car at another
\* utilization is within 2^-49 * (|var_opex_car| + |fixed_opex_car| +
\* |monthly_debt_car|) of the run's, and tc of a cell is within
\* 2^-49 * (|vc| + |fixed_opex_car| + |monthly_debt_car|) of the first
\* cell's.
C10_CostsFixedRounded ==
  /\ Bound({"total_miles_mo_per_car"}) =>
       Near(ns.total_miles_mo_per_car, HoursTimesSpeed, -50, HoursTimesSpeed)
  /\ pc = "kpis" =>
       \A x \in WidgetValues.paid_utilization :
         Near(CostsAt(x), ns.total_costs_car, -49,
              FAdd(FAdd(FAbs(ns.var_opex_car),
                        FAbs(FromInt(ns.fixed_opex_car))),
                   FAbs(ns.monthly_debt_car)))
  /\ Bound({"tc"}) => Near(ns.tc, FirstTc, -49, TcSize)

C10_Witness ==
  /\ Bound({"tc"})
  /\ ~FEq(ns.tc, FirstTc)
  /\ ~FEq(ns.total_miles_mo_per_car, HoursTimesSpeed)

====
